---- MODULE Spec2Model ----
(***************************************************************************)
(* Model of the portfolio page (src/app.py) and of the FIFO cost-basis     *)
(* ledger described in spec.md section 4.1.                                *)
(*                                                                         *)
(* The page is a script that is executed from top to bottom on every user  *)
(* interaction.  One action of the model is one interaction followed by    *)
(* the whole script run it triggers.  The only state that survives a run   *)
(* is st.session_state; everything else is recomputed and is kept here in  *)
(* the variable snapshot (what the run displayed).                         *)
(*                                                                         *)
(* Floats are modelled as exact numbers.  A float cell is a tuple:         *)
(*   << >>      NaN / None                                                 *)
(*   <<n>>      the number n                                               *)
(*   <<n, d>>   the quotient n / d  (d # 0)                                *)
(* A price history frame is represented by its last close.                 *)
(*                                                                         *)
(* The data editor is taken by the contract the script itself relies on    *)
(* (lines 88 and 220-224): the table under the key "portfolio_editor" of   *)
(* st.session_state is the editor's frame, default_portfolio until the key *)
(* is set, and the user's cell edits are changes of that table.  A failed  *)
(* lookup is the outcome the fetch functions themselves produce for it:    *)
(* NaN for a current price (line 55), an empty frame for a history         *)
(* (lines 31 and 33).  The table never has fewer than the three default    *)
(* tickers, so fetch_history always takes its loop (lines 22-34).          *)
(***************************************************************************)
EXTENDS Integers, Sequences, FiniteSets, TLC

VARIABLES session_state, snapshot, feed, ledger_log

vars == <<session_state, snapshot, feed, ledger_log>>

(***************************************************************************)
(* Bounds of the model.                                                    *)
(***************************************************************************)
MaxRows == 4
MaxLog == 3

(***************************************************************************)
(* Float cells.                                                            *)
(***************************************************************************)
NaN == << >>

Num(n) == <<n>>

IsNaN(x) == x = NaN

\* Series.fillna(d) on one cell, then the cast to a plain number.
FillNa(c, d) == IF IsNaN(c) THEN d ELSE c[1]

\* float * float; NaN propagates.
Mul(a, b) == IF IsNaN(a) \/ IsNaN(b) THEN NaN ELSE Num(a[1] * b[1])

\* float - float; NaN propagates.
Sub(a, b) == IF IsNaN(a) \/ IsNaN(b) THEN NaN ELSE Num(a[1] - b[1])

\* (a / b - 1) * 100 as the exact quotient 100 * (a - b) / b.  IEEE division
\* by zero raises nothing in pandas: it yields inf or NaN.
PctOver(a, b) ==
    IF IsNaN(a) \/ IsNaN(b) THEN NaN
    ELSE IF b[1] = 0 THEN NaN
    ELSE <<100 * (a[1] - b[1]), b[1]>>

\* numpy.where(cond, x, y) on one element.
Where(cond, x, y) == IF cond THEN x ELSE y

RECURSIVE SumSkipNa(_)
\* Series.sum() with the default skipna=True: NaN cells are left out.
SumSkipNa(s) ==
    IF s = << >> THEN 0
    ELSE (IF IsNaN(Head(s)) THEN 0 ELSE Head(s)[1]) + SumSkipNa(Tail(s))

RECURSIVE SumInts(_)
SumInts(s) == IF s = << >> THEN 0 ELSE Head(s) + SumInts(Tail(s))

(***************************************************************************)
(* The page's data.                                                        *)
(***************************************************************************)
Row(t, u, p) == [Ticker |-> t, Units |-> u, PurchasePrice |-> p]

default_portfolio ==
    << Row("NDQ.AX", Num(10), Num(20)),
       Row("CBA.AX", Num(5), Num(90)),
       Row("IVV", Num(8), Num(350)) >>

\* What the price oracle answers when a lookup succeeds.
MarketPrice == [t \in {"NDQ.AX", "CBA.AX", "IVV"} |->
                   CASE t = "NDQ.AX" -> 10 [] t = "CBA.AX" -> 100 [] OTHER -> 400]

\* Last close of the price history when the history lookup succeeds.
HistClose == [t \in {"NDQ.AX", "CBA.AX", "IVV"} |->
                 CASE t = "NDQ.AX" -> 9 [] t = "CBA.AX" -> 95 [] OTHER -> 390]

AllTickers == {"NDQ.AX", "CBA.AX", "IVV"}

\* The oracle outcomes of one run: the tickers whose lookup fails.
CurFailSets == { {}, {"IVV"} }

HistFailSets == { {}, {"IVV"}, AllTickers }

\* What the user may type.
UnitEdits == { Num(-1), NaN }

FormInputs == { <<"", 0, 0>>, <<"ivv", 0, 0>>, <<"ivv", 2, 30>> }

\* str.upper() on the tickers the form offers.
Upper(s) == CASE s = "ivv" -> "IVV" [] OTHER -> s

(***************************************************************************)
(* st.session_state: a map from widget key to value.                       *)
(***************************************************************************)
\* st.session_state.get(key, default)
SessionGet(ss, key, default) == IF key \in DOMAIN ss THEN ss[key] ELSE default

\* st.session_state[key] = value
SessionSet(ss, key, value) ==
    [k \in DOMAIN ss \cup {key} |-> IF k = key THEN value ELSE ss[k]]

\* isinstance(df, pd.DataFrame): frames are the sequences of rows.
IsDataFrame(df) == DOMAIN df = 1..Len(df)

\* st.experimental_data_editor(default_portfolio, key="portfolio_editor"):
\* the table held under the widget's key, the default one until it is set.
DataEditor(ss) == SessionGet(ss, "portfolio_editor", default_portfolio)

\* The row put in front of the frame.
AppendRowFirst(df, row) == <<row>> \o df

\* df.append(row, ignore_index=True)
AppendRow(df, row) == Append(df, row)

(***************************************************************************)
(* The script run.                                                         *)
(***************************************************************************)
\* Lines 90-92: fillna(0) and the casts of the two numeric columns.
Validate(df) ==
    [i \in 1..Len(df) |->
        [Ticker |-> df[i].Ticker,
         Units |-> FillNa(df[i].Units, 0),
         PurchasePrice |-> FillNa(df[i].PurchasePrice, 0)]]

RECURSIVE UniqueFrom(_, _)
UniqueFrom(s, seen) ==
    IF s = << >> THEN << >>
    ELSE IF Head(s) \in seen THEN UniqueFrom(Tail(s), seen)
    ELSE <<Head(s)>> \o UniqueFrom(Tail(s), seen \cup {Head(s)})

\* edited['Ticker'].unique().tolist(): order of first appearance.
Unique(edited) == UniqueFrom([i \in 1..Len(edited) |-> edited[i].Ticker], {})

Range(s) == { s[i] : i \in 1..Len(s) }

\* A failed lookup answered with the price 0.
fetch_current_prices_zero(tickers, curFail) ==
    [t \in Range(tickers) |-> IF t \in curFail THEN Num(0) ELSE Num(MarketPrice[t])]

\* fetch_current_prices: a failed lookup leaves NaN under the ticker.
fetch_current_prices(tickers, curFail) ==
    [t \in Range(tickers) |-> IF t \in curFail THEN NaN ELSE Num(MarketPrice[t])]

\* fetch_history, lines 22-34: a failed lookup leaves an empty frame (NaN
\* here) under the ticker.
fetch_history(tickers, histFail) ==
    [t \in Range(tickers) |-> IF t \in histFail THEN NaN ELSE Num(HistClose[t])]

\* Lines 101-108: the holdings table, one row per row of the editor.
HoldingsRow(r, current_prices) ==
    LET cp == current_prices[r.Ticker]
        cv == Mul(Num(r.Units), cp)
        cb == r.Units * r.PurchasePrice
    IN  [Ticker |-> r.Ticker, Units |-> r.Units, PurchasePrice |-> r.PurchasePrice,
         CurrentPrice |-> cp,
         CurrentValue |-> cv,
         CostBasis |-> cb,
         PL |-> Sub(cv, Num(cb)),
         PLpct |-> Where(cb > 0, PctOver(cv, Num(cb)), NaN)]

Holdings(edited, current_prices) ==
    [i \in 1..Len(edited) |-> HoldingsRow(edited[i], current_prices)]

Column(holdings, f) == [i \in 1..Len(holdings) |-> holdings[i][f]]

\* Line 112: holdings['P/L ($)'].sum()
total_pl(holdings) == SumSkipNa(Column(holdings, "PL"))

\* Line 113
total_pl_pct(total_current_value, total_cost) ==
    IF total_cost # 0
    THEN PctOver(Num(total_current_value), Num(total_cost))
    ELSE NaN

RECURSIVE SelectSeq2(_, _)
SelectSeq2(s, keep) ==
    IF s = << >> THEN << >>
    ELSE (IF Head(s) \in keep THEN <<Head(s)>> ELSE << >>) \o SelectSeq2(Tail(s), keep)

\* Lines 127-133: the tickers that contribute a price frame.
price_frames(tickers, history_dict) ==
    SelectSeq2(tickers, { t \in Range(tickers) : ~IsNaN(history_dict[t]) })

\* Line 140: set_index('Ticker')['Units'].to_dict(); the last row of a
\* ticker overwrites the earlier ones.
LastIndex(holdings, t) ==
    CHOOSE i \in 1..Len(holdings) :
        /\ holdings[i].Ticker = t
        /\ \A j \in (i + 1)..Len(holdings) : holdings[j].Ticker # t

units_map(holdings) ==
    [t \in { holdings[i].Ticker : i \in 1..Len(holdings) } |->
        holdings[LastIndex(holdings, t)].Units]

\* Lines 141-143 on the last date of the frame.
value_series(columns, history_dict, umap) ==
    SumInts([i \in 1..Len(columns) |-> history_dict[columns[i]][1] * umap[columns[i]]])

\* Line 158
raw_weight(cur_price, units) ==
    IF ~IsNaN(cur_price) /\ units # 0 THEN cur_price[1] * units ELSE 0

raw_weights(columns, current_prices, umap) ==
    [t \in Range(columns) |-> raw_weight(current_prices[t], umap[t])]

SumOver(columns, w) == SumInts([i \in 1..Len(columns) |-> w[columns[i]]])

\* Line 159
w_total(columns, w) == IF SumOver(columns, w) # 0 THEN SumOver(columns, w) ELSE 1

\* Lines 160-161: weights[t] / w_total as an exact quotient.
weights(columns, w) == [t \in Range(columns) |-> <<w[t], w_total(columns, w)>>]

\* The column assignments of lines 91-92 written through to the table.
SessionAfterValidationAliased(ss) ==
    SessionSet(ss, "portfolio_editor", Validate(DataEditor(ss)))

\* Lines 88-92 and 101: the editor hands the script a frame of its own, and
\* holdings is a copy of it, so the column assignments of the run stay out
\* of the table held in st.session_state.
SessionAfterValidation(ss) == ss

NoSnapshot == [ran |-> FALSE]

\* The part of a run that reads: lines 88-161.  prices_df and units_map are
\* assigned only when price_frames is non-empty, and line 150 reads
\* prices_df: with no price frame the run ends there with a NameError.
RunScript(table, curFail, histFail) ==
    LET edited == Validate(table)
        tickers == Unique(edited)
        history_dict == fetch_history(tickers, histFail)
        current_prices == fetch_current_prices(tickers, curFail)
        holdings == Holdings(edited, current_prices)
        tcv == SumSkipNa(Column(holdings, "CurrentValue"))
        tc == SumInts(Column(holdings, "CostBasis"))
        columns == price_frames(tickers, history_dict)
        umap == units_map(holdings)
        w == raw_weights(columns, current_prices, umap)
        base == [ran |-> TRUE,
                 holdings |-> holdings,
                 total_current_value |-> tcv,
                 total_cost |-> tc,
                 total_pl |-> total_pl(holdings),
                 total_pl_pct |-> total_pl_pct(tcv, tc)]
    IN  IF columns = << >>
        THEN base @@ [error |-> "NameError", columns |-> << >>, units_map |-> << >>,
                      value |-> 0, raw_weights |-> << >>, w_total |-> 1,
                      weights |-> << >>]
        ELSE base @@ [error |-> "", columns |-> columns, units_map |-> umap,
                      value |-> value_series(columns, history_dict, umap),
                      raw_weights |-> w, w_total |-> w_total(columns, w),
                      weights |-> weights(columns, w)]

\* Lines 219-224: the quick_add submit handler.
QuickAddHandler(ss, submitted, new_ticker, new_units, new_price) ==
    IF submitted /\ new_ticker # ""
    THEN LET df == SessionGet(ss, "portfolio_editor", default_portfolio)
         IN  IF IsDataFrame(df)
             THEN SessionSet(ss, "portfolio_editor",
                             AppendRow(df, Row(Upper(new_ticker), Num(new_units),
                                               Num(new_price))))
             ELSE ss
    ELSE ss

(***************************************************************************)
(* Actions: one user interaction and the script run it triggers.           *)
(***************************************************************************)
Init ==
    /\ session_state = << >>
    /\ snapshot = NoSnapshot
    /\ feed = [cur |-> {}, hist |-> {}]
    /\ ledger_log = << >>

\* The run of a page load or of the "Refresh data" button.
Refresh ==
    \E cf \in CurFailSets, hf \in HistFailSets :
        /\ feed' = [cur |-> cf, hist |-> hf]
        /\ snapshot' = RunScript(DataEditor(session_state), cf, hf)
        /\ session_state' = SessionAfterValidation(session_state)
        /\ UNCHANGED ledger_log

\* The user changes the Units cell of row i in the data editor.
EditUnits(i, v) ==
    /\ i \in 1..Len(DataEditor(session_state))
    /\ LET table == [DataEditor(session_state) EXCEPT ![i].Units = v]
       IN  \E cf \in CurFailSets, hf \in HistFailSets :
               /\ feed' = [cur |-> cf, hist |-> hf]
               /\ session_state' =
                      SessionAfterValidation(
                          SessionSet(session_state, "portfolio_editor", table))
               /\ snapshot' = RunScript(table, cf, hf)
    /\ UNCHANGED ledger_log

\* The user submits the quick_add form.  The handler is at the end of the
\* script: it runs only if the run got that far.
QuickAdd(new_ticker, new_units, new_price) ==
    /\ Len(DataEditor(session_state)) < MaxRows
    /\ \E cf \in CurFailSets, hf \in HistFailSets :
           LET snap == RunScript(DataEditor(session_state), cf, hf)
           IN  /\ feed' = [cur |-> cf, hist |-> hf]
               /\ snapshot' = snap
               /\ session_state' =
                      IF snap.error = ""
                      THEN QuickAddHandler(SessionAfterValidation(session_state),
                                           TRUE, new_ticker, new_units, new_price)
                      ELSE SessionAfterValidation(session_state)
    /\ UNCHANGED ledger_log

Next ==
    \/ Refresh
    \/ \E i \in 1..MaxRows, v \in UnitEdits : EditUnits(i, v)
    \/ \E f \in FormInputs : QuickAdd(f[1], f[2], f[3])

Spec == Init /\ [][Next]_vars

(***************************************************************************)
(* The cost-basis ledger of spec.md section 4.1: a log of transactions,    *)
(* folded into one holding per symbol at every read.                       *)
(***************************************************************************)
Symbols == { "IVV", "NDQ.AX" }

BuyUnits == { 10 }

SellUnits == { 5, 15 }

TradePrices == { 10, 20 }

Transaction(s, k, u, p) == [symbol |-> s, kind |-> k, units |-> u, price_per_unit |-> p]

Lot(u, p) == [units_remaining |-> u, price_per_unit |-> p]

Min(a, b) == IF a < b THEN a ELSE b

RECURSIVE ConsumeNewestFirst(_, _)
\* The consumption walking the lots from the newest to the oldest.
ConsumeNewestFirst(lots, remaining_to_sell) ==
    IF lots = << >> THEN << >>
    ELSE LET last == lots[Len(lots)]
             consumed == Min(last.units_remaining, remaining_to_sell)
         IN  Append(ConsumeNewestFirst(SubSeq(lots, 1, Len(lots) - 1),
                                       remaining_to_sell - consumed),
                    [last EXCEPT !.units_remaining = @ - consumed])

RECURSIVE ConsumeFIFO(_, _)
\* Effect (SELL): for each lot in creation order, consumed =
\* min(lot.units_remaining, remaining_to_sell).
ConsumeFIFO(lots, remaining_to_sell) ==
    IF lots = << >> THEN << >>
    ELSE LET consumed == Min(Head(lots).units_remaining, remaining_to_sell)
         IN  <<[Head(lots) EXCEPT !.units_remaining = @ - consumed]>>
                 \o ConsumeFIFO(Tail(lots), remaining_to_sell - consumed)

EmptyHolding == [units |-> 0, open_lots |-> << >>]

\* One transaction applied to the holding of its symbol.  An oversell is not
\* special-cased: the lots stop at zero and the running unit count goes on.
ApplyTransaction(h, tx) ==
    IF tx.kind = "BUY"
    THEN [units |-> h.units + tx.units,
          open_lots |-> Append(h.open_lots, Lot(tx.units, tx.price_per_unit))]
    ELSE [units |-> h.units - tx.units,
          open_lots |-> ConsumeFIFO(h.open_lots, tx.units)]

RECURSIVE FoldLog(_, _)
\* The holding of symbol s after the transactions of log, oldest first.
FoldLog(log, s) ==
    IF log = << >> THEN EmptyHolding
    ELSE LET h == FoldLog(SubSeq(log, 1, Len(log) - 1), s)
             tx == log[Len(log)]
         IN  IF tx.symbol = s THEN ApplyTransaction(h, tx) ELSE h

\* total_invested: sum of units_remaining * price_per_unit over the lots.
total_invested(h) ==
    SumInts([i \in 1..Len(h.open_lots) |->
                h.open_lots[i].units_remaining * h.open_lots[i].price_per_unit])

\* record(transaction)
Record(s, k, u, p) ==
    /\ Len(ledger_log) < MaxLog
    /\ u > 0
    /\ p > 0
    /\ ledger_log' = Append(ledger_log, Transaction(s, k, u, p))
    /\ UNCHANGED <<session_state, snapshot, feed>>

RecordBuy == \E s \in Symbols, u \in BuyUnits, p \in TradePrices : Record(s, "BUY", u, p)

RecordSell == \E s \in Symbols, u \in SellUnits, p \in TradePrices : Record(s, "SELL", u, p)

\* reset()
Reset ==
    /\ ledger_log # << >>
    /\ ledger_log' = << >>
    /\ UNCHANGED <<session_state, snapshot, feed>>

LedgerNext == RecordBuy \/ RecordSell \/ Reset

LedgerSpec == Init /\ [][LedgerNext]_vars

(***************************************************************************)
(* Properties.                                                             *)
(***************************************************************************)
\* The three editor columns of a holdings table.
EditorColumns(holdings) ==
    [i \in 1..Len(holdings) |->
        [Ticker |-> holdings[i].Ticker, Units |-> holdings[i].Units,
         PurchasePrice |-> holdings[i].PurchasePrice]]

\* The BUYs of symbol s in the log, oldest first.
BuysOf(log, s) == SelectSeq(log, LAMBDA tx : tx.symbol = s /\ tx.kind = "BUY")

\* No SELL of the log exceeded the units held when it was recorded.
NoOversell(log) ==
    \A s \in Symbols : \A n \in 0..Len(log) : FoldLog(SubSeq(log, 1, n), s).units >= 0

\* The lots that still hold units.
OpenLots(h) == SelectSeq(h.open_lots, LAMBDA l : l.units_remaining > 0)

FifoExample ==
    << Transaction("IVV", "BUY", 10, 10), Transaction("IVV", "BUY", 10, 20),
       Transaction("IVV", "SELL", 15, 20) >>

\* C1: as long as no SELL exceeds the units held, the lots of every symbol
\* are consumed oldest first: a lot is below its bought size only if every
\* older lot is at zero, no lot is below zero, the units left are the units
\* bought minus the units sold, total_invested is the cost of the units left,
\* and BUY 10@10, BUY 10@20, SELL 15 leaves one open lot 5@20 and
\* total_invested 100.
C1_FifoConsumption ==
    NoOversell(ledger_log) =>
        /\ \A s \in Symbols :
              LET h == FoldLog(ledger_log, s)
                  buys == BuysOf(ledger_log, s)
              IN  /\ Len(h.open_lots) = Len(buys)
                  /\ \A j \in 1..Len(buys) :
                        /\ h.open_lots[j].units_remaining >= 0
                        /\ h.open_lots[j].units_remaining <= buys[j].units
                        /\ h.open_lots[j].price_per_unit = buys[j].price_per_unit
                        /\ h.open_lots[j].units_remaining < buys[j].units
                              => \A i \in 1..(j - 1) : h.open_lots[i].units_remaining = 0
                  /\ SumInts([j \in 1..Len(buys) |-> h.open_lots[j].units_remaining])
                        = h.units
                  /\ total_invested(h) =
                        SumInts([j \in 1..Len(buys) |->
                            h.open_lots[j].units_remaining * buys[j].price_per_unit])
        /\ ledger_log = FifoExample =>
              /\ OpenLots(FoldLog(ledger_log, "IVV")) = <<Lot(5, 20)>>
              /\ total_invested(FoldLog(ledger_log, "IVV")) = 100

\* C1 witness: a SELL within the units held has cut into a second lot after
\* using up the first.
C1_Witness ==
    /\ NoOversell(ledger_log)
    /\ \E s \in Symbols :
          LET h == FoldLog(ledger_log, s)
          IN  /\ Len(h.open_lots) >= 2
              /\ h.open_lots[1].units_remaining = 0
              /\ h.open_lots[2].units_remaining = 5

\* C2 (as claimed): the units the value series uses for a ticker are the sum
\* of the units of all rows of that ticker.
C2_UnitsMapIsSum ==
    (snapshot.ran /\ snapshot.error = "") =>
        \A t \in DOMAIN snapshot.units_map :
            snapshot.units_map[t] =
                SumInts([i \in 1..Len(snapshot.holdings) |->
                    IF snapshot.holdings[i].Ticker = t
                    THEN snapshot.holdings[i].Units ELSE 0])

\* C3 (as claimed): no reachable state shows a holding with negative units.
C3_NoNegativeUnits ==
    snapshot.ran => \A i \in 1..Len(snapshot.holdings) : snapshot.holdings[i].Units >= 0

\* C4 (as claimed): whenever the table grows, the row that was added has
\* units > 0 and a purchase price > 0.
C4_OnlyPositiveRowsAppended ==
    [][LET old == DataEditor(session_state)
           new == DataEditor(session_state')
       IN  Len(new) > Len(old) =>
               /\ FillNa(new[Len(new)].Units, 0) > 0
               /\ FillNa(new[Len(new)].PurchasePrice, 0) > 0]_vars

C6_TotalsConsistent ==
    snapshot.ran =>
        snapshot.total_pl = snapshot.total_current_value - snapshot.total_cost

\* C7: in every run, a row whose ticker has no price shows NaN (not 0) as
\* price and as value, a row whose ticker has a price shows units * price,
\* and the total current value is the sum over the priced rows.
C7_OracleFailureIsolation ==
    snapshot.ran =>
        /\ \A i \in 1..Len(snapshot.holdings) :
              LET r == snapshot.holdings[i]
              IN  IF r.Ticker \in feed.cur
                  THEN IsNaN(r.CurrentPrice) /\ IsNaN(r.CurrentValue)
                  ELSE /\ r.CurrentPrice = Num(MarketPrice[r.Ticker])
                       /\ r.CurrentValue = Num(r.Units * MarketPrice[r.Ticker])
        /\ snapshot.total_current_value =
              SumInts([i \in 1..Len(snapshot.holdings) |->
                  IF snapshot.holdings[i].Ticker \in feed.cur THEN 0
                  ELSE snapshot.holdings[i].Units
                           * MarketPrice[snapshot.holdings[i].Ticker]])

\* C7 witness: one run with a ticker without price and a ticker with a price
\* and units.
C7_Witness ==
    /\ snapshot.ran
    /\ \E i, j \in 1..Len(snapshot.holdings) :
          /\ snapshot.holdings[i].Ticker \in feed.cur
          /\ snapshot.holdings[j].Ticker \notin feed.cur
          /\ snapshot.holdings[j].Units > 0

\* C8 (as claimed): every run ends without an unhandled error.
C8_RunCompletes == snapshot.ran => snapshot.error = ""

C10_NoDivisionByZero ==
    (snapshot.ran /\ snapshot.error = "") =>
        LET raw == SumOver(snapshot.columns, snapshot.raw_weights)
            nums == SumInts([i \in 1..Len(snapshot.columns) |->
                        snapshot.weights[snapshot.columns[i]][1]])
        IN  /\ \A i \in 1..Len(snapshot.holdings) :
                  ~IsNaN(snapshot.holdings[i].PLpct)
                      => snapshot.holdings[i].CostBasis > 0
            /\ ~IsNaN(snapshot.total_pl_pct) => snapshot.total_cost # 0
            /\ \A t \in DOMAIN snapshot.weights : snapshot.weights[t][2] # 0
            /\ raw # 0 => nums = snapshot.w_total
            /\ raw = 0 => \A t \in DOMAIN snapshot.weights : snapshot.weights[t][1] = 0

====
